---- MODULE Spec2Model ----
(***************************************************************************)
(* Token lifecycle, authenticated request dispatch and the one-shot        *)
(* authorization flow of src/utils.ts.                                     *)
(*                                                                         *)
(* Requests of the process (handleSpotifyRequest) run as interleaved       *)
(* asynchronous calls: everything between two awaits is one atomic step.   *)
(* A token is a positive number, 0 stands for an absent (falsy) value, as  *)
(* the code tests tokens and expires_at by truthiness.                     *)
(***************************************************************************)
EXTENDS Integers, Sequences, FiniteSets

\* ------------------------------------------------------------------ bounds
\* Steps of the clock, grants the provider makes, and requests that reach the
\* callback listener, in one run.
MaxTicks == 1
MaxGrants == 2
MaxReqs == 3

\* The clock advances in steps of 60 s.
TickMs == 60 * 1000
\* expires_in values (seconds) the provider may answer with; 0 - 1 stands for
\* a response whose expires_in is not a number.
ExpiresInChoices == {30, 120}
NotANumber == 0 - 1
\* Requests running concurrently in the process, numbered in the order they
\* are made.
Procs == {1, 2}

\* --------------------------------------------------------------- constants
TOKEN_REFRESH_MARGIN == 60 * 1000

Absent == 0

VARIABLES
    now,        \* Date.now(), in ticks
    env,        \* SPOTIFY_CLIENT_ID, SPOTIFY_CLIENT_SECRET and SPOTIFY_REDIRECT_URI of the process
    secrets,    \* clientId, clientSecret and redirectUri of the config file
    store,      \* token fields of the config file
    issued,     \* grants made by the provider so far; grant n carries token n + 1
    pc,         \* per request: the await it is suspended at
    cfg,        \* per request: the local `config` object
    retry,      \* per request: retryOnAuthError of the running invocation
    apiLog,     \* per request: the resource calls sent, with their answers
    tokCalls,   \* per request: token endpoint calls sent
    freshCalls, \* per request: token endpoint calls of the running invocation's freshness step
    reactCalls, \* per request: token endpoint calls triggered by a 401
    loaded,     \* per request: the record and time the running invocation loaded
    rfail,      \* per request: a refresh failed
    persist,    \* per request: whether its config was updated, and the file right after
    result,     \* per request: outcome
    args,       \* per request: the arguments of its running invocation
    reply,      \* per request: the value returned or the text of the ApiError thrown
    thrown,     \* per request: the error its refresh threw, where, on which answer, and
                \* whether the config it was given was then as before the call
    tool,       \* per request: what the tool handler that made it returned
    lastOp,     \* the last completed refresh or exchange
    flow,       \* authPromise: Idle, AwaitingCallback, Success, Failed (with its error)
    nonce,      \* the state generated for the run
    srv,        \* the callback listener: off, binding, listening, closing, closed
    closeCalls, \* server.close calls issued
    closeCbs,   \* callbacks given to server.close, waiting for the 'close' event
    settles,    \* resolve/reject calls issued
    inflight,   \* callback handlers suspended in exchangeCodeForToken
    exchCalls,  \* calls of exchangeCodeForToken
    reqs,       \* requests and connection errors the listener has seen
    last,       \* the last request handled, what its handler did, and whether no
                \* outcome had been issued in the run before it
    exch        \* the last answer to a code exchange, and whether no outcome had
                \* been issued in the run before it

reqVars == <<pc, cfg, retry, apiLog, tokCalls, freshCalls, reactCalls, loaded, rfail, persist, result,
            args, reply, thrown, tool>>
authVars == <<flow, nonce, srv, closeCalls, closeCbs, settles, inflight, exchCalls, reqs, last, exch>>
vars == <<now, env, secrets, store, issued, reqVars, lastOp, authVars>>

NowMs == now * TickMs

NoTokens == [accessToken |-> Absent, refreshToken |-> Absent, expires_at |-> Absent]
NoLoad == [rec |-> NoTokens, at |-> 0, secrets |-> [f \in {"clientId", "clientSecret", "redirectUri"} |-> ""]]
NoResult == [kind |-> "none", status |-> 0]
NoOp == [kind |-> "none", who |-> 0, newAccess |-> Absent, newRefresh |-> Absent, prevStored |-> Absent,
         prevHeld |-> Absent, expires_in |-> 0, at |-> 0, mem |-> NoTokens, clean |-> TRUE]
NotMutated == [mutated |-> FALSE, stored |-> NoTokens]
NoArgs == [method |-> "none", body |-> FALSE, path |-> "none", query |-> FALSE]
NoReply == [value |-> "none", text |-> "none", parsed |-> FALSE]
NoThrow == [stage |-> "none", status |-> 0, err |-> NoResult, kept |-> TRUE]
NoReturn == [needs |-> FALSE, isError |-> FALSE, threw |-> FALSE, error |-> NoResult,
             text |-> "none"]

Ok(v) == [kind |-> "ok", status |-> v]
Err(k, s) == [kind |-> k, status |-> s]

\* ------------------------------------------------------------ loadSpotifyConfig
\* The three fields of the application's registration, each empty ("") or set.
\* An absent field and an empty one are the same to every test of the code.
SecretFields == {"clientId", "clientSecret", "redirectUri"}
NoSecrets == [f \in SecretFields |-> ""]
FromEnv == [f \in SecretFields |-> "env"]
FromFile == [f \in SecretFields |-> "file"]

\* A config file whose text is not JSON: nothing can be read from it.
Garbage == 0 - 2
CorruptSecrets == [f \in SecretFields |-> "garbage"]
CorruptTokens == [accessToken |-> Garbage, refreshToken |-> Garbage, expires_at |-> Garbage]

\* A load that lets the file's fields win over the environment.
LoadSecrets_FileFirst(e, file) ==
    [f \in SecretFields |-> IF file[f] # "" THEN file[f] ELSE e[f]]

\* Lines 36-40 and 54-59: each field is the environment variable, or the
\* field of the file when the variable is empty or unset. A missing file has
\* no fields; when the file cannot be parsed, the catch of line 60 leaves the
\* fields as the environment gave them.
LoadSecrets(e, file) ==
    [f \in SecretFields |->
        IF e[f] # "" THEN e[f] ELSE IF file = CorruptSecrets THEN "" ELSE file[f]]

\* A validation that asks for the client id only.
ConfigMissing_IdOnly(c) == c.clientId = ""

\* Line 69: the validation that makes loadSpotifyConfig throw.
ConfigMissing(c) == c.clientId = "" \/ c.clientSecret = "" \/ c.redirectUri = ""

\* Token fields are taken from the file when truthy; none when the file
\* cannot be parsed (the parse of line 45 throws before any assignment).
LoadTokens(file) ==
    IF file = CorruptTokens THEN NoTokens ELSE
    [accessToken |-> IF file.accessToken # Absent THEN file.accessToken ELSE Absent,
     refreshToken |-> IF file.refreshToken # Absent THEN file.refreshToken ELSE Absent,
     expires_at |-> IF file.expires_at # Absent THEN file.expires_at ELSE Absent]

\* A save that leaves the expiry out of dataToSave.
SaveTokens_NoExpiry(file, c) ==
    [accessToken |-> IF c.accessToken # Absent THEN c.accessToken ELSE Absent,
     refreshToken |-> IF c.refreshToken # Absent THEN c.refreshToken ELSE Absent,
     expires_at |-> Absent]

\* A save that writes the three fields of the config it is given.
SaveSecrets_FromConfig(file, c) == c

\* ------------------------------------------------------------ saveSpotifyConfig
\* Lines 89-104: the three fields written are those of the existing file;
\* those of the config `c` are not looked at.
SaveSecrets(file, c) ==
    [f \in SecretFields |-> IF file # CorruptSecrets /\ file[f] # "" THEN file[f] ELSE ""]

\* dataToSave starts without tokens; each token field of the config is
\* written when truthy.
SaveTokens(file, c) ==
    [accessToken |-> IF c.accessToken # Absent THEN c.accessToken ELSE Absent,
     refreshToken |-> IF c.refreshToken # Absent THEN c.refreshToken ELSE Absent,
     expires_at |-> IF c.expires_at # Absent THEN c.expires_at ELSE Absent]

\* An update that takes the refresh token from the response unconditionally.
MergeRefresh_Overwrite(c, data, t) ==
    [accessToken |-> data.access_token,
     refreshToken |-> data.refresh_token,
     expires_at |-> t + data.expires_in * 1000]

\* An update that leaves the expiry as it was.
MergeRefresh_KeepExpiry(c, data, t) ==
    [accessToken |-> data.access_token,
     refreshToken |-> IF data.refresh_token # Absent THEN data.refresh_token ELSE c.refreshToken,
     expires_at |-> c.expires_at]

\* An update that leaves the access token as it was.
MergeRefresh_KeepAccess(c, data, t) ==
    [accessToken |-> c.accessToken,
     refreshToken |-> IF data.refresh_token # Absent THEN data.refresh_token ELSE c.refreshToken,
     expires_at |-> t + data.expires_in * 1000]

\* ------------------------------------------------------------ refreshToken
\* Lines 243-248: the update of the config from a token response.
MergeRefresh(c, data, t) ==
    [accessToken |-> data.access_token,
     refreshToken |-> IF data.refresh_token # Absent THEN data.refresh_token ELSE c.refreshToken,
     expires_at |-> t + data.expires_in * 1000]

\* A token response that never came: refreshToken threw before the fetch, or
\* the fetch rejected.
NoGrant == [status |-> 0, access_token |-> Absent, refresh_token |-> Absent,
            expires_in |-> NotANumber]

\* A refresh that updates the config before it looks at the response.
RefreshThrowConfig_MergedFirst(c, data, t, failure) == MergeRefresh(c, data, t)

\* Lines 196-251: the config as refreshToken leaves it when it throws for
\* `failure`. Every throw of lines 196-240 comes before the assignments of
\* lines 243-248; only a save that throws (line 251, no failure of the
\* response) comes after them.
RefreshThrowConfig(c, data, t, failure) ==
    IF failure # NoResult THEN c ELSE MergeRefresh(c, data, t)

\* A classification that takes a 400 for a transient failure.
RefreshFailure_400Transient(resp) ==
    IF resp.status = 0 THEN Err("NetworkError", 0)
    ELSE IF resp.status \notin 200..299
         THEN IF resp.status = 401
              THEN Err("RefreshRejected", resp.status)
              ELSE Err("TokenEndpoint", resp.status)
    ELSE IF resp.expires_in = NotANumber THEN Err("MissingExpiresIn", 0)
    ELSE NoResult

\* Line 223-240: the failure a token response makes refreshToken throw.
RefreshFailure(resp) ==
    IF resp.status = 0 THEN Err("NetworkError", 0)
    ELSE IF resp.status \notin 200..299
         THEN IF resp.status = 400 \/ resp.status = 401
              THEN Err("RefreshRejected", resp.status)
              ELSE Err("TokenEndpoint", resp.status)
    ELSE IF resp.expires_in = NotANumber THEN Err("MissingExpiresIn", 0)
    ELSE NoResult

\* A retry that does not look at the flag.
RetriesOn401_Always(status, allow) == status = 401

\* A freshness test without the margin.
NeedsProactiveRefresh_NoMargin(c, t) ==
    /\ c.accessToken # Absent
    /\ c.expires_at # Absent
    /\ c.expires_at < t

\* A freshness test that also refreshes a token expiring exactly at the margin.
NeedsProactiveRefresh_Inclusive(c, t) ==
    /\ c.accessToken # Absent
    /\ c.expires_at # Absent
    /\ c.expires_at <= t + TOKEN_REFRESH_MARGIN

\* A re-invocation that keeps the retry enabled.
RetryFlagOfReinvocation_Kept == TRUE

\* A failure of the re-invocation caught by the catch of line 370.
ApiFailure_Caught(status) == Err("AuthExpired", 0)

\* A catch of line 370 that throws the error it caught.
RetryRefreshFailure_Rethrown(e) == e

\* A freshness step whose catch replaces the error as line 372 does.
FreshnessFailure_Replaced(e) == Err("AuthExpired", 0)

\* ------------------------------------------------------------ handleSpotifyRequest
\* Line 290-294.
NeedsProactiveRefresh(c, t) ==
    /\ c.accessToken # Absent
    /\ c.expires_at # Absent
    /\ c.expires_at < t + TOKEN_REFRESH_MARGIN

\* Line 369: the flag the call re-invokes itself with.
RetryFlagOfReinvocation == FALSE

\* Line 360.
RetriesOn401(status, allow) == status = 401 /\ allow

\* Line 376-384: a non-ok answer that is not retried.
ApiFailure(status) == Err("ApiError", status)

\* Line 372: what a failed refresh after a 401 is turned into.
RetryRefreshFailure(e) == Err("AuthExpired", 0)

\* A refresh that goes to the token endpoint whatever the config holds.
CanRefresh_Always(c) == TRUE

\* refreshToken, lines 196-200: without a refresh token in the config the
\* function throws before it builds the request.
CanRefresh(c) == c.refreshToken # Absent

\* Lines 289-321 after the config `c` is in hand at time t: where the call
\* suspends next, or the error it throws.
AfterInitial(c, t) ==
    IF NeedsProactiveRefresh(c, t)
    THEN IF ~CanRefresh(c) THEN "NoRefreshToken" ELSE "refreshProactive"
    ELSE IF c.accessToken = Absent THEN "AccessTokenMissing" ELSE "api"

\* A load that does not test for a record without tokens.
AfterLoad_NoAuthCheck(c, t) ==
    IF c.accessToken = Absent /\ c.refreshToken # Absent THEN "refreshInitial"
    ELSE AfterInitial(c, t)

\* Lines 265-287.
AfterLoad(c, t) ==
    IF c.accessToken = Absent /\ c.refreshToken = Absent THEN "AuthRequired"
    ELSE IF c.accessToken = Absent /\ c.refreshToken # Absent THEN "refreshInitial"
    ELSE AfterInitial(c, t)

\* Bodies of resource responses: the text, whether JSON.parse accepts it, and
\* its error.message ("none" when it has none).
ErrorBody == [raw |-> "{error:{message:m}}", json |-> TRUE, message |-> "m"]
DataBody == [raw |-> "{items:[]}", json |-> TRUE, message |-> "none"]
EmptyBody == [raw |-> "", json |-> FALSE, message |-> "none"]
\* The body that carries what createPlaylist and updatePlaylistItems look for
\* in the value (id, snapshot_id).
SnapshotBody == [raw |-> "{snapshot_id:s}", json |-> TRUE, message |-> "none"]
Bodies ==
    {ErrorBody, DataBody, EmptyBody, SnapshotBody,
     [raw |-> "{error:{message:''}}", json |-> TRUE, message |-> ""],
     [raw |-> "Bad Gateway", json |-> FALSE, message |-> "none"]}

\* Lines 282-285 and 301-304: what a failed refresh of the freshness step is
\* turned into: the catch throws the error it caught.
FreshnessFailure(e) == e

\* An error text that is always the raw body.
ErrorText_Raw(body) == body.raw

\* A treatment of 2xx responses without the test for 204.
Returned_No204Rule(a, resp) ==
    IF resp.len0 \/ (resp.status = 200 /\ a.method = "PUT")
    THEN [kind |-> "ok", value |-> "undefined", parsed |-> FALSE]
    ELSE IF resp.body.json
    THEN [kind |-> "ok", value |-> resp.body.raw, parsed |-> TRUE]
    ELSE IF a.method = "GET" \/ a.method = "POST" \/ a.body
    THEN [kind |-> "ParseError", value |-> "none", parsed |-> TRUE]
    ELSE [kind |-> "ok", value |-> "undefined", parsed |-> TRUE]

\* Lines 378-382: the text of an ApiError, from the body of the response.
ErrorText(body) ==
    IF body.json /\ body.message # "none" /\ body.message # ""
    THEN body.message
    ELSE body.raw

\* Lines 387-419: what a 2xx response makes a call with arguments `a` return
\* or throw, and whether response.json() was called on the way.
Returned(a, resp) ==
    IF resp.status = 204
    THEN [kind |-> "ok", value |-> "undefined", parsed |-> FALSE]
    ELSE IF resp.len0 \/ (resp.status = 200 /\ a.method = "PUT")
    THEN [kind |-> "ok", value |-> "undefined", parsed |-> FALSE]
    ELSE IF resp.body.json
    THEN [kind |-> "ok", value |-> resp.body.raw, parsed |-> TRUE]
    ELSE IF a.method = "GET" \/ a.method = "POST" \/ a.body
    THEN [kind |-> "ParseError", value |-> "none", parsed |-> TRUE]
    ELSE [kind |-> "ok", value |-> "undefined", parsed |-> TRUE]

Awaits == {"refreshInitial", "refreshProactive", "api", "refreshRetry"}
FreshnessAwaits == {"refreshInitial", "refreshProactive"}

\* After a successful proactive refresh: lines 315-321.
AfterProactive(c) ==
    IF c.accessToken = Absent THEN "AccessTokenMissing" ELSE "api"

\* The call `p`, running with flag `allow` and having made `fc` token calls in
\* its freshness step, moves on to `lbl` holding config `c`: it suspends at an
\* await (sending the fetch of that await) or ends with the error `lbl` names.
MoveTo(p, lbl, c, fc, allow, a) ==
    /\ pc' = [pc EXCEPT ![p] = IF lbl \in Awaits THEN lbl ELSE "done"]
    /\ cfg' = [cfg EXCEPT ![p] = IF lbl \in Awaits THEN c ELSE NoTokens]
    /\ result' = [result EXCEPT ![p] =
                    IF lbl \in Awaits THEN @
                    ELSE IF lbl = "NoRefreshToken" THEN FreshnessFailure(Err(lbl, 0))
                    ELSE Err(lbl, 0)]
    /\ thrown' = [thrown EXCEPT ![p] =
                    IF lbl = "NoRefreshToken"
                    THEN [stage |-> "freshness", status |-> 0, err |-> Err(lbl, 0),
                          kept |-> RefreshThrowConfig(c, NoGrant, NowMs, Err(lbl, 0)) = c]
                    ELSE @]
    /\ apiLog' = [apiLog EXCEPT ![p] =
                    IF lbl = "api"
                    THEN Append(@, [call |-> a, retry |-> allow, token |-> c.accessToken,
                                    status |-> 0,
                                    body |-> EmptyBody])
                    ELSE @]
    /\ tokCalls' = [tokCalls EXCEPT ![p] = IF lbl \in FreshnessAwaits THEN @ + 1 ELSE @]
    /\ freshCalls' = [freshCalls EXCEPT ![p] = IF lbl \in FreshnessAwaits THEN fc + 1 ELSE fc]
    /\ rfail' = [rfail EXCEPT ![p] = IF lbl = "NoRefreshToken" THEN TRUE ELSE @]

\* A new invocation of handleSpotifyRequest with the arguments `a` and the flag
\* `allow`, reading `file`.
Invoke(p, allow, file, a) ==
    LET c == LoadTokens(file)
        missing == ConfigMissing(LoadSecrets(env, secrets))
    IN
    /\ retry' = [retry EXCEPT ![p] = allow]
    /\ loaded' = [loaded EXCEPT ![p] =
                    IF missing THEN NoLoad
                    ELSE [rec |-> c, at |-> NowMs, secrets |-> LoadSecrets(env, secrets)]]
    /\ persist' = [persist EXCEPT ![p] = NotMutated]
    /\ args' = [args EXCEPT ![p] = a]
    /\ MoveTo(p, IF missing THEN "ConfigMissing" ELSE AfterLoad(c, NowMs), c, 0, allow, a)

\* The arguments of a call: the method, the path, whether query parameters
\* are passed and whether a body is passed.
Methods == {"GET", "POST", "PUT", "DELETE"}
Calls ==
    [method : Methods, body : BOOLEAN, path : {"/me/player"}, query : {FALSE}]
    \cup {[method |-> "GET", body |-> FALSE, path |-> "/search", query |-> TRUE]}
PlainGet == [method |-> "GET", body |-> FALSE, path |-> "/me/player", query |-> FALSE]

\* A re-invocation that passes the method and the path on without query and body.
ReinvocationArgs_Bare(a) == [a EXCEPT !.query = FALSE, !.body = FALSE]

\* Line 369: the re-invocation is given method, path, queryParams and body of
\* the running invocation.
ReinvocationArgs(a) == a

\* A call of the request function by a tool handler, with arguments `a`.
Call(p, a) ==
    /\ pc[p] = "idle"
    /\ \A q \in Procs : q < p => pc[q] # "idle"
    /\ Invoke(p, TRUE, store, a)
    /\ UNCHANGED <<now, store, issued, reactCalls, reply, tool, lastOp, authVars, env, secrets>>

\* A call that reads: GET without a body.
Start(p) == Call(p, PlainGet)

\* ------------------------------------------------------------ the provider
\* What the token endpoint may answer: a transport failure (status 0), an
\* HTTP failure, or a grant, with or without a rotated refresh token and with
\* or without a numeric expires_in.
TokenFailures ==
    {[status |-> s, access_token |-> Absent, refresh_token |-> Absent, expires_in |-> NotANumber] :
        s \in {0, 400, 401, 500}}

TokenGrants ==
    IF issued < MaxGrants
    THEN {[status |-> 200, access_token |-> issued + 2, refresh_token |-> r, expires_in |-> e] :
            r \in {Absent, issued + 2}, e \in ExpiresInChoices \cup {NotANumber}}
    ELSE {}

TokenResponses == TokenFailures \cup TokenGrants

ApiStatuses == {0, 200, 204, 401, 500}

\* The record of a completed token update: what was in memory after lines
\* 243-248 (546-548 for the exchange) and what surrounded it.
OpOf(k, p, held, data, mem) ==
    [kind |-> k, who |-> p, newAccess |-> data.access_token, newRefresh |-> data.refresh_token,
     prevStored |-> store.refreshToken, prevHeld |-> held.refreshToken,
     expires_in |-> data.expires_in, at |-> NowMs, mem |-> mem,
     clean |-> (held = LoadTokens(store))]

\* ------------------------------------------------------------ refreshToken, awaited
\* The token endpoint answers the refresh of the freshness step (line 281 or
\* 300); a failure is thrown on to the caller unchanged.
FreshnessRefreshReturns(p) ==
    /\ pc[p] \in FreshnessAwaits
    /\ \E resp \in TokenResponses, saveOk \in BOOLEAN :
        LET failure == RefreshFailure(resp)
            e == IF failure # NoResult THEN failure ELSE Err("SaveFailed", 0)
            c2 == MergeRefresh(cfg[p], resp, NowMs)
            file2 == SaveTokens(store, c2)
        IN
        IF failure # NoResult \/ ~saveOk
        THEN /\ pc' = [pc EXCEPT ![p] = "done"]
             /\ result' = [result EXCEPT ![p] = FreshnessFailure(e)]
             /\ thrown' = [thrown EXCEPT ![p] =
                             [stage |-> "freshness", status |-> resp.status, err |-> e,
                              kept |-> RefreshThrowConfig(cfg[p], resp, NowMs, failure) = cfg[p]]]
             /\ rfail' = [rfail EXCEPT ![p] = TRUE]
             /\ cfg' = [cfg EXCEPT ![p] = NoTokens]
             /\ issued' = IF failure = NoResult THEN issued + 1 ELSE issued
             /\ UNCHANGED <<store, secrets, lastOp, retry, apiLog, tokCalls, freshCalls, loaded,
                            persist>>
        ELSE /\ store' = file2
             /\ secrets' = SaveSecrets(secrets, LoadSecrets(env, secrets))
             /\ issued' = issued + 1
             /\ lastOp' = OpOf("refresh", p, cfg[p], resp, c2)
             /\ persist' = [persist EXCEPT ![p] = [mutated |-> TRUE, stored |-> LoadTokens(file2)]]
             /\ MoveTo(p, IF pc[p] = "refreshInitial" THEN AfterInitial(c2, NowMs)
                                                       ELSE AfterProactive(c2),
                       c2, freshCalls[p], retry[p], args[p])
             /\ UNCHANGED <<retry, loaded>>
    /\ UNCHANGED <<now, env, reactCalls, args, reply, tool, authVars>>

\* ------------------------------------------------------------ the resource call, awaited
SetAnswer(log, resp) ==
    [log EXCEPT ![Len(log)].status = resp.status, ![Len(log)].body = resp.body]

\* A resource response: status 0 stands for a fetch that rejects; len0 for a
\* content-length header of "0", which only a response without body carries.
NoAnswer == [status |-> 0, len0 |-> FALSE, body |-> EmptyBody]
ApiResponses ==
    {NoAnswer}
    \cup {r \in [status : (ApiStatuses \cup {201}) \ {0}, len0 : BOOLEAN, body : Bodies] :
            r.len0 => r.body = EmptyBody}

\* The response a well-behaved provider gives with a status.
PlainResponse(status) ==
    IF status = 0 THEN NoAnswer
    ELSE [status |-> status, len0 |-> FALSE,
          body |-> IF status \notin 200..299 THEN ErrorBody
                   ELSE IF status = 204 THEN EmptyBody ELSE DataBody]

\* Lines 352-428: the resource call of request `p` is answered with `resp`.
Answer(p, resp) ==
    LET status == resp.status IN
    /\ pc[p] = "api"
    /\ apiLog' = [apiLog EXCEPT ![p] = SetAnswer(@, resp)]
    /\ IF status = 0
       THEN \* fetch rejects
            /\ pc' = [pc EXCEPT ![p] = "done"]
            /\ result' = [result EXCEPT ![p] = Err("NetworkError", 0)]
            /\ cfg' = [cfg EXCEPT ![p] = NoTokens]
            /\ UNCHANGED <<tokCalls, reactCalls, rfail, reply, thrown>>
       ELSE IF status \notin 200..299
       THEN IF RetriesOn401(status, retry[p])
            THEN /\ reactCalls' = [reactCalls EXCEPT ![p] = @ + 1]
                 /\ IF ~CanRefresh(cfg[p])
                    THEN \* refreshToken throws at line 197, caught at line 370
                         /\ pc' = [pc EXCEPT ![p] = "done"]
                         /\ result' = [result EXCEPT ![p] =
                                         RetryRefreshFailure(Err("NoRefreshToken", 0))]
                         /\ thrown' = [thrown EXCEPT ![p] =
                                         [stage |-> "retry", status |-> 0,
                                          err |-> Err("NoRefreshToken", 0),
                                          kept |-> RefreshThrowConfig(cfg[p], NoGrant, NowMs,
                                                       Err("NoRefreshToken", 0)) = cfg[p]]]
                         /\ rfail' = [rfail EXCEPT ![p] = TRUE]
                         /\ cfg' = [cfg EXCEPT ![p] = NoTokens]
                         /\ UNCHANGED <<tokCalls, reply>>
                    ELSE /\ pc' = [pc EXCEPT ![p] = "refreshRetry"]
                         /\ tokCalls' = [tokCalls EXCEPT ![p] = @ + 1]
                         /\ UNCHANGED <<result, rfail, cfg, reply, thrown>>
            ELSE /\ pc' = [pc EXCEPT ![p] = "done"]
                 /\ result' = [result EXCEPT ![p] = ApiFailure(status)]
                 /\ reply' = [reply EXCEPT ![p] =
                                [value |-> "none", text |-> ErrorText(resp.body),
                                 parsed |-> FALSE]]
                 /\ cfg' = [cfg EXCEPT ![p] = NoTokens]
                 /\ UNCHANGED <<tokCalls, reactCalls, rfail, thrown>>
       ELSE LET r == Returned(args[p], resp) IN
            /\ pc' = [pc EXCEPT ![p] = "done"]
            /\ result' = [result EXCEPT ![p] =
                            IF r.kind = "ok" THEN Ok(status) ELSE Err(r.kind, status)]
            /\ reply' = [reply EXCEPT ![p] =
                           [value |-> r.value, text |-> "none", parsed |-> r.parsed]]
            /\ cfg' = [cfg EXCEPT ![p] = NoTokens]
            /\ UNCHANGED <<tokCalls, reactCalls, rfail, thrown>>
    /\ UNCHANGED <<now, store, issued, retry, freshCalls, loaded, persist, args, tool, lastOp,
                   authVars, env, secrets>>

\* The resource API answers the call of request `p` as a well-behaved provider.
ApiReturns(p) == \E status \in ApiStatuses : Answer(p, PlainResponse(status))

\* The resource API answers the call of request `p` with any response.
ApiAnswers(p) == \E resp \in ApiResponses : Answer(p, resp)

\* A re-invocation that goes on with the tokens the file held before the refresh.
ReinvocationReads_Stale(before, after) == before

\* Lines 366-369, 265: the re-invocation loads the file again, which the
\* refresh has written at line 251 before it returned.
ReinvocationReads(before, after) == after

\* The token endpoint answers the refresh made after a 401 (line 366). On
\* success the call re-invokes itself (line 369) and its outcome is the
\* outcome of that invocation; a failure is replaced at line 372.
RetryRefreshReturns(p) ==
    /\ pc[p] = "refreshRetry"
    /\ \E resp \in TokenResponses, saveOk \in BOOLEAN :
        LET failure == RefreshFailure(resp)
            e == IF failure # NoResult THEN failure ELSE Err("SaveFailed", 0)
            c2 == MergeRefresh(cfg[p], resp, NowMs)
            file2 == SaveTokens(store, c2)
        IN
        IF failure # NoResult \/ ~saveOk
        THEN /\ pc' = [pc EXCEPT ![p] = "done"]
             /\ result' = [result EXCEPT ![p] = RetryRefreshFailure(e)]
             /\ thrown' = [thrown EXCEPT ![p] =
                             [stage |-> "retry", status |-> resp.status, err |-> e,
                              kept |-> RefreshThrowConfig(cfg[p], resp, NowMs, failure) = cfg[p]]]
             /\ rfail' = [rfail EXCEPT ![p] = TRUE]
             /\ cfg' = [cfg EXCEPT ![p] = NoTokens]
             /\ issued' = IF failure = NoResult THEN issued + 1 ELSE issued
             /\ UNCHANGED <<store, secrets, lastOp, retry, apiLog, tokCalls, freshCalls, loaded,
                            persist, args>>
        ELSE /\ store' = file2
             /\ secrets' = SaveSecrets(secrets, LoadSecrets(env, secrets))
             /\ issued' = issued + 1
             /\ lastOp' = OpOf("refresh", p, cfg[p], resp, c2)
             /\ Invoke(p, RetryFlagOfReinvocation, ReinvocationReads(store, file2),
                       ReinvocationArgs(args[p]))
    /\ UNCHANGED <<now, env, reactCalls, reply, tool, authVars>>

\* ------------------------------------------------------------ the tool handlers
\* A handler without a catch around its call of the request function.
HandlerReturn_NoCatch(res, rep, needs) ==
    IF res.kind # "ok"
    THEN [needs |-> needs, isError |-> FALSE, threw |-> TRUE, error |-> res, text |-> rep.text]
    ELSE IF needs /\ rep.value # "{snapshot_id:s}"
    THEN [needs |-> needs, isError |-> TRUE, threw |-> FALSE, error |-> NoResult,
          text |-> "no value"]
    ELSE [needs |-> needs, isError |-> FALSE, threw |-> FALSE, error |-> NoResult,
          text |-> rep.value]

\* What a handler returns once its call of the request function has returned
\* or thrown `res`: the catch turns an error into a result with isError and
\* the error's message; a value is formatted into a result without isError,
\* or, by the handlers that look for a field of the value (createPlaylist for
\* id, updatePlaylistItems for snapshot_id), reported as an error when the
\* value is undefined or has no such field.
HandlerReturn(res, rep, needs) ==
    IF res.kind # "ok"
    THEN [needs |-> needs, isError |-> TRUE, threw |-> FALSE, error |-> res, text |-> rep.text]
    ELSE IF needs /\ rep.value # SnapshotBody.raw
    THEN [needs |-> needs, isError |-> TRUE, threw |-> FALSE, error |-> NoResult,
          text |-> "no value"]
    ELSE [needs |-> needs, isError |-> FALSE, threw |-> FALSE, error |-> NoResult,
          text |-> rep.value]

\* The handler of request `p` returns after its call of the request function.
HandlerReturns(p) ==
    /\ pc[p] = "done"
    /\ pc' = [pc EXCEPT ![p] = "returned"]
    /\ \E needs \in BOOLEAN :
        tool' = [tool EXCEPT ![p] = HandlerReturn(result[p], reply[p], needs)]
    /\ UNCHANGED <<now, env, secrets, store, issued, cfg, retry, apiLog, tokCalls, freshCalls,
                   reactCalls, loaded, rfail, persist, result, args, reply, thrown, lastOp,
                   authVars>>

\* The handler of request `p` finds its arguments unusable and returns an
\* error without calling the request function (playMusic, updatePlaylistItems,
\* addTracksToPlaylist, addToQueue).
HandlerRejects(p) ==
    /\ pc[p] = "idle"
    /\ \A q \in Procs : q < p => pc[q] # "idle"
    /\ pc' = [pc EXCEPT ![p] = "returned"]
    /\ tool' = [tool EXCEPT ![p] =
                  [needs |-> FALSE, isError |-> TRUE, threw |-> FALSE,
                   error |-> Err("InvalidArguments", 0), text |-> "none"]]
    /\ UNCHANGED <<now, env, secrets, store, issued, cfg, retry, apiLog, tokCalls, freshCalls,
                   reactCalls, loaded, rfail, persist, result, args, reply, thrown, lastOp,
                   authVars>>

Tick ==
    /\ now < MaxTicks
    /\ now' = now + 1
    /\ UNCHANGED <<store, issued, reqVars, lastOp, authVars, env, secrets>>

\* ------------------------------------------------------------ authorizeSpotify
Nonces == {"s1", "s2"}
None == "none"

Pending == [state |-> "Idle", error |-> None]
NoRequest == [req |-> [url |-> FALSE, path |-> None, code |-> None, state |-> None, error |-> None],
              did |-> None, exchanged |-> FALSE, first |-> FALSE]

\* What reaches the request handler of the listener: a path with the query
\* parameters code, state and error (None when absent). The HTTP parser gives
\* every request of a server a URL, so none arrives without.
Requests ==
    {[url |-> TRUE, path |-> "/favicon.ico", code |-> None, state |-> None, error |-> None]}
    \cup {[url |-> TRUE, path |-> "/callback", code |-> c, state |-> st, error |-> e] :
            c \in {None, "code"}, st \in Nonces \cup {None}, e \in {None, "access_denied"}}

CallbackPath == "/callback"

\* A comparison that lets a callback without state through.
StateMatches_AbsentOk(returned, expected) == returned = None \/ returned = expected

\* Line 514.
StateMatches(returned, expected) == returned = expected

\* A handler that does not look at the path of the request.
Handle_AnyPath(r, expected) ==
    IF ~r.url THEN "NoUrl"
    ELSE IF r.error # None THEN "AuthorizationDenied"
    ELSE IF ~StateMatches(r.state, expected) THEN "StateMismatch"
    ELSE IF r.code = None THEN "MissingCode"
    ELSE "exchange"

\* A handler that tests the error parameter after the state and the code.
Handle_ErrorLast(r, expected) ==
    IF ~r.url THEN "NoUrl"
    ELSE IF r.path # CallbackPath THEN "NotFound"
    ELSE IF ~StateMatches(r.state, expected) THEN "StateMismatch"
    ELSE IF r.code = None THEN "MissingCode"
    ELSE IF r.error # None THEN "AuthorizationDenied"
    ELSE "exchange"

\* A handler that tests the code before the state.
Handle_CodeFirst(r, expected) ==
    IF ~r.url THEN "NoUrl"
    ELSE IF r.path # CallbackPath THEN "NotFound"
    ELSE IF r.error # None THEN "AuthorizationDenied"
    ELSE IF r.code = None THEN "MissingCode"
    ELSE IF ~StateMatches(r.state, expected) THEN "StateMismatch"
    ELSE "exchange"

\* Lines 481-568 up to the first await: what the handler does with a request.
\* "exchange" is the call of exchangeCodeForToken; every other value but
\* "NotFound" is the error the handler closes the listener with.
Handle(r, expected) ==
    IF ~r.url THEN "NoUrl"
    ELSE IF r.path # CallbackPath THEN "NotFound"
    ELSE IF r.error # None THEN "AuthorizationDenied"
    ELSE IF ~StateMatches(r.state, expected) THEN "StateMismatch"
    ELSE IF r.code = None THEN "MissingCode"
    ELSE "exchange"

\* Lines 546-548: the config after a code exchange.
MergeExchange(c, data, t) ==
    [accessToken |-> data.access_token,
     refreshToken |-> data.refresh_token,
     expires_at |-> t + data.expires_in * 1000]

\* What the token endpoint answered a code exchange with: no answer at all,
\* a status other than 2xx, a 2xx without a numeric expires_in, or a grant.
NoExchange == [answer |-> None, first |-> FALSE]
AnswerOf(resp) ==
    IF resp.status = 0 THEN "network"
    ELSE IF resp.status \notin 200..299 THEN "non2xx"
    ELSE IF resp.expires_in = NotANumber THEN "noExpiresIn"
    ELSE "grant"

\* An exchange that does not ask for a numeric expires_in.
ExchangeFailure_ExpiresInOptional(resp) ==
    IF resp.status = 0 THEN "NetworkError"
    ELSE IF resp.status \notin 200..299 THEN "TokenExchange"
    ELSE None

\* An exchange that takes every answer of the token endpoint for a grant.
ExchangeFailure_IgnoresStatus(resp) == None

\* Lines 173-186: the failure a token response makes exchangeCodeForToken throw.
ExchangeFailure(resp) ==
    IF resp.status = 0 THEN "NetworkError"
    ELSE IF resp.status \notin 200..299 THEN "TokenExchange"
    ELSE IF resp.expires_in = NotANumber THEN "TokenExchange"
    ELSE None

\* resolve() or reject(e) on authPromise: only the first call settles it.
Settle(f, outcome) ==
    IF f.state # "AwaitingCallback" THEN f
    ELSE IF outcome = "resolve" THEN [state |-> "Success", error |-> None]
    ELSE [state |-> "Failed", error |-> outcome]

RECURSIVE SettleAll(_, _)
SettleAll(f, cbs) ==
    IF cbs = <<>> THEN f ELSE SettleAll(Settle(f, Head(cbs)), Tail(cbs))

\* server.close(cb): the listener stops accepting; cb runs on the 'close' event.
ServerClose(outcome) ==
    /\ closeCalls' = closeCalls + 1
    /\ closeCbs' = Append(closeCbs, outcome)
    /\ srv' = IF srv = "listening" THEN "closing" ELSE srv

\* Lines 431-479, 572: load, generate the state, create the server and listen.
Authorize ==
    /\ flow.state = "Idle"
    /\ IF ConfigMissing(LoadSecrets(env, secrets))
       THEN \* loadSpotifyConfig throws at line 431
            /\ flow' = [state |-> "Failed", error |-> "ConfigMissing"]
            /\ UNCHANGED <<nonce, srv>>
       ELSE /\ flow' = [state |-> "AwaitingCallback", error |-> None]
            /\ \E n \in Nonces : nonce' = n
            /\ srv' = "binding"
    /\ UNCHANGED <<now, env, secrets, store, issued, reqVars, lastOp, closeCalls, closeCbs, settles,
                   inflight, exchCalls, reqs, last, exch>>

\* Lines 572-583: the 'listening' event.
Listening ==
    /\ srv = "binding"
    /\ srv' = "listening"
    /\ UNCHANGED <<now, env, secrets, store, issued, reqVars, lastOp, flow, nonce, closeCalls, closeCbs,
                   settles, inflight, exchCalls, reqs, last, exch>>

\* Lines 585-602: the 'error' event of the server while it binds: the port is
\* in use, or another listen error. The listener never starts.
ListenError ==
    /\ srv = "binding"
    /\ \E e \in {"PortInUse", "ServerError"} : flow' = Settle(flow, e)
    /\ settles' = settles + 1
    /\ srv' = "off"
    /\ UNCHANGED <<now, env, secrets, store, issued, reqVars, lastOp, nonce, closeCalls, closeCbs,
                   inflight, exchCalls, reqs, last, exch>>

\* Lines 596-601: the 'error' event of the server while it listens (a failed
\* accept). The handler rejects and leaves the listener up.
AcceptError ==
    /\ srv = "listening"
    /\ reqs < MaxReqs
    /\ flow' = Settle(flow, "ServerError")
    /\ settles' = settles + 1
    /\ reqs' = reqs + 1
    /\ UNCHANGED <<now, env, secrets, store, issued, reqVars, lastOp, nonce, srv, closeCalls, closeCbs,
                   inflight, exchCalls, last, exch>>

\* Lines 480-568 up to the await of line 544: the request handler.
HandleRequest(r) ==
    LET h == Handle(r, nonce) IN
    /\ last' = [req |-> r, did |-> h, exchanged |-> (h = "exchange"),
                first |-> (closeCalls = 0 /\ settles = 0)]
    /\ IF h = "NotFound"
       THEN UNCHANGED <<srv, closeCalls, closeCbs, inflight, exchCalls>>
       ELSE IF h = "exchange"
       THEN /\ inflight' = inflight + 1
            /\ exchCalls' = exchCalls + 1
            /\ UNCHANGED <<srv, closeCalls, closeCbs>>
       ELSE /\ ServerClose(h)
            /\ UNCHANGED <<inflight, exchCalls>>
    /\ reqs' = reqs + 1
    /\ UNCHANGED <<now, env, secrets, store, issued, reqVars, lastOp, flow, nonce, settles, exch>>

\* A request arrives on a new connection while the listener accepts.
Request ==
    /\ srv = "listening"
    /\ reqs < MaxReqs
    /\ \E r \in Requests : HandleRequest(r)

\* The browser follows the redirect of the provider after the user's consent,
\* once: a callback with a code and the state of the run.
Redirect ==
    /\ srv = "listening"
    /\ reqs = 0
    /\ HandleRequest([url |-> TRUE, path |-> CallbackPath, code |-> "code",
                      state |-> nonce, error |-> None])

\* A request arrives on a connection that was kept alive, after server.close
\* and before the last connection has ended.
KeptAliveRequest ==
    /\ srv = "closing"
    /\ reqs < MaxReqs
    /\ \E r \in Requests : HandleRequest(r)

\* Lines 544-565: the token endpoint answers a code exchange.
ExchangeReturns ==
    /\ inflight > 0
    /\ inflight' = inflight - 1
    /\ \E resp \in TokenResponses, saveOk \in BOOLEAN :
        LET failure == ExchangeFailure(resp)
            c2 == MergeExchange(LoadTokens(store), resp, NowMs)
            file2 == SaveTokens(store, c2)
        IN
        /\ exch' = [answer |-> AnswerOf(resp), first |-> (closeCalls = 0 /\ settles = 0)]
        /\ IF failure # None \/ ~saveOk
           THEN /\ ServerClose(IF failure # None THEN failure ELSE "SaveFailed")
                /\ issued' = IF failure = None THEN issued + 1 ELSE issued
                /\ UNCHANGED <<store, secrets, lastOp>>
           ELSE /\ store' = file2
                /\ secrets' = SaveSecrets(secrets, LoadSecrets(env, secrets))
                /\ issued' = issued + 1
                /\ lastOp' = OpOf("exchange", 0, LoadTokens(store), resp, c2)
                /\ ServerClose("resolve")
    /\ UNCHANGED <<now, env, reqVars, flow, nonce, settles, exchCalls, reqs, last>>

\* The 'close' event: every connection has ended; the callbacks given to
\* server.close run in the order of the calls.
CloseEvent ==
    /\ srv = "closing"
    /\ inflight = 0
    /\ srv' = "closed"
    /\ flow' = SettleAll(flow, closeCbs)
    /\ settles' = settles + Len(closeCbs)
    /\ closeCbs' = <<>>
    /\ UNCHANGED <<now, env, secrets, store, issued, reqVars, lastOp, nonce, closeCalls, inflight,
                   exchCalls, reqs, last, exch>>

\* ------------------------------------------------------------ initial states
\* The file before the requests start: never authorized, authorized (with or
\* without a refresh token in the grant), or holding a refresh token only.
InitialStores ==
    {NoTokens}
    \cup {[accessToken |-> 1, refreshToken |-> r, expires_at |-> e * 1000] :
            r \in {Absent, 1}, e \in {60, 120}}
    \cup {[accessToken |-> Absent, refreshToken |-> 1, expires_at |-> Absent]}

\* The registration the process finds: in the environment, in the file, in
\* both, or incomplete.
Registrations == [SecretFields -> {"", "env"}]
FileRegistrations == [SecretFields -> {"", "file"}]

InitVars ==
    /\ now = 0
    /\ issued = 0
    /\ pc = [p \in Procs |-> "idle"]
    /\ cfg = [p \in Procs |-> NoTokens]
    /\ retry = [p \in Procs |-> TRUE]
    /\ apiLog = [p \in Procs |-> <<>>]
    /\ tokCalls = [p \in Procs |-> 0]
    /\ freshCalls = [p \in Procs |-> 0]
    /\ reactCalls = [p \in Procs |-> 0]
    /\ loaded = [p \in Procs |-> NoLoad]
    /\ rfail = [p \in Procs |-> FALSE]
    /\ persist = [p \in Procs |-> NotMutated]
    /\ result = [p \in Procs |-> NoResult]
    /\ args = [p \in Procs |-> NoArgs]
    /\ reply = [p \in Procs |-> NoReply]
    /\ thrown = [p \in Procs |-> NoThrow]
    /\ tool = [p \in Procs |-> NoReturn]
    /\ lastOp = NoOp
    /\ flow = Pending
    /\ nonce = None
    /\ srv = "off"
    /\ closeCalls = 0
    /\ closeCbs = <<>>
    /\ settles = 0
    /\ inflight = 0
    /\ exchCalls = 0
    /\ reqs = 0
    /\ last = NoRequest
    /\ exch = NoExchange

InitRest ==
    /\ InitVars
    /\ store \in InitialStores

\* The process is configured through its environment.
Init ==
    /\ InitRest
    /\ env = FromEnv
    /\ secrets = NoSecrets

\* Any registration, complete or not, and a file with or without tokens.
InitConfig ==
    /\ InitRest
    /\ env \in Registrations
    /\ secrets \in FileRegistrations
    /\ store \in {NoTokens, [accessToken |-> 1, refreshToken |-> 1, expires_at |-> 60 * 1000]}

\* One request and one run of the flow, in any order.
NextConfig ==
    \/ Start(1)
    \/ FreshnessRefreshReturns(1)
    \/ ApiReturns(1)
    \/ RetryRefreshReturns(1)
    \/ Authorize
    \/ Listening
    \/ Redirect
    \/ ExchangeReturns
    \/ CloseEvent

SpecConfig == InitConfig /\ [][NextConfig]_vars

\* Any registration and any file: missing or empty, with or without
\* registration and tokens, or one that cannot be parsed.
InitLoad ==
    /\ InitVars
    /\ env \in Registrations
    /\ \/ secrets \in FileRegistrations /\ store \in InitialStores
       \/ secrets = CorruptSecrets /\ store = CorruptTokens

\* One request, which loads when it is invoked and when it re-invokes itself.
NextLoad ==
    \/ Start(1)
    \/ FreshnessRefreshReturns(1)
    \/ ApiReturns(1)
    \/ RetryRefreshReturns(1)

SpecLoad == InitLoad /\ [][NextLoad]_vars

NextReq ==
    \/ \E p \in Procs : Start(p)
    \/ \E p \in Procs : FreshnessRefreshReturns(p)
    \/ \E p \in Procs : ApiReturns(p)
    \/ \E p \in Procs : RetryRefreshReturns(p)
    \/ Tick

SpecReq == Init /\ [][NextReq]_vars

\* One request at a time, with every kind of call and of response.
NextCall ==
    \/ \E a \in Calls : Call(1, a)
    \/ FreshnessRefreshReturns(1)
    \/ ApiAnswers(1)
    \/ RetryRefreshReturns(1)
    \/ Tick

SpecCall == Init /\ [][NextCall]_vars

\* One tool call at a time: the handler, its request and every answer to it.
NextTool ==
    \/ HandlerRejects(1)
    \/ \E a \in Calls : Call(1, a)
    \/ FreshnessRefreshReturns(1)
    \/ ApiAnswers(1)
    \/ RetryRefreshReturns(1)
    \/ HandlerReturns(1)
    \/ Tick

SpecTool == Init /\ [][NextTool]_vars

\* One request alone in the process.
NextSolo ==
    \/ Start(1)
    \/ FreshnessRefreshReturns(1)
    \/ ApiReturns(1)
    \/ RetryRefreshReturns(1)
    \/ Tick

\* Every network call of the request returns: a fetch resolves or rejects.
SpecSoloFair ==
    /\ Init
    /\ [][NextSolo]_vars
    /\ WF_vars(FreshnessRefreshReturns(1))
    /\ WF_vars(ApiReturns(1))
    /\ WF_vars(RetryRefreshReturns(1))

\* The flow with every request on a connection of its own and no failed accept.
NextAuthStrict ==
    \/ Authorize
    \/ Listening
    \/ ListenError
    \/ Request
    \/ ExchangeReturns
    \/ CloseEvent
    \/ Tick

NextAuth ==
    \/ Authorize
    \/ Listening
    \/ ListenError
    \/ AcceptError
    \/ Request
    \/ KeptAliveRequest
    \/ ExchangeReturns
    \/ CloseEvent
    \/ Tick

\* The authorization flow runs on a file never authorized before, or
\* re-authorizes one.
InitAuth ==
    /\ Init
    /\ store \in {NoTokens, [accessToken |-> 1, refreshToken |-> 1, expires_at |-> 120 * 1000]}

SpecAuth == InitAuth /\ [][NextAuth]_vars

SpecAuthStrict == InitAuth /\ [][NextAuthStrict]_vars

\* The life of the record: the file starts without tokens, the flow is run
\* and a request is made, in any order.
InitLife ==
    /\ Init
    /\ store = NoTokens

NextLife ==
    \/ Authorize
    \/ Listening
    \/ Redirect
    \/ ExchangeReturns
    \/ CloseEvent
    \/ NextReq

SpecLife == InitLife /\ [][NextLife]_vars

\* ------------------------------------------------------------ properties
RefreshAwaits == {"refreshInitial", "refreshProactive", "refreshRetry"}

\* Every resource call of the request was answered 401.
Answered401(p) ==
    /\ Len(apiLog[p]) > 0
    /\ \A i \in 1..Len(apiLog[p]) : apiLog[p][i].status = 401

\* A finished request started with the retry allowed, whose resource calls all
\* answered 401 and whose refreshes all succeeded.
Always401Case(p) ==
    /\ pc[p] = "done"
    /\ Answered401(p)
    /\ apiLog[p][1].retry
    /\ ~rfail[p]

\* C1 as stated: a request whose resource calls always answer 401 makes
\* exactly one refresh attempt and two resource calls, and fails with
\* AuthExpiredError.
C1_Original ==
    \A p \in Procs :
        Always401Case(p) =>
            /\ tokCalls[p] = 1
            /\ Len(apiLog[p]) = 2
            /\ result[p].kind = "AuthExpired"

\* C1 amended: a request whose resource calls always answer 401 makes exactly
\* one refresh attempt on account of the 401 and exactly two resource calls,
\* and fails with the ApiError of status 401 of the second call.
C1_SingleRetryBound ==
    \A p \in Procs :
        Always401Case(p) =>
            /\ reactCalls[p] = 1
            /\ Len(apiLog[p]) = 2
            /\ result[p] = Err("ApiError", 401)

C1_Witness ==
    \E p \in Procs : Always401Case(p) /\ Len(apiLog[p]) = 2 /\ tokCalls[p] = 1

\* C2: one logical request sends at most two resource calls, and the second
\* one is sent with the retry disabled.
C2_RetriesNeverCascade ==
    \A p \in Procs :
        /\ Len(apiLog[p]) <= 2
        /\ Len(apiLog[p]) = 2 => ~apiLog[p][2].retry

C2_Witness ==
    \E p \in Procs : pc[p] = "done" /\ Len(apiLog[p]) = 2 /\ apiLog[p][1].retry

\* Resource calls sent by the running invocation of the request.
InvApi(p) == Len(apiLog[p]) - (IF retry[p] THEN 0 ELSE 1)

\* The record the invocation loaded expires within the margin.
NearExpiry(l) ==
    /\ l.rec.expires_at # Absent
    /\ l.rec.expires_at - l.at < TOKEN_REFRESH_MARGIN

\* C3 as stated: for every record with expiresAt - now < margin the freshness
\* step makes exactly one token endpoint call.
C3_Original ==
    \A p \in Procs :
        (pc[p] \in {"api", "refreshRetry", "done"} /\ NearExpiry(loaded[p]))
            => freshCalls[p] = 1

\* C3 amended: for every record that holds an access token and a refresh
\* token and has expiresAt - now < margin, the freshness step makes exactly
\* one token endpoint call, and makes it before any resource call.
C3_ProactiveRefresh ==
    \A p \in Procs :
        (/\ pc[p] # "idle"
         /\ NearExpiry(loaded[p])
         /\ loaded[p].rec.accessToken # Absent
         /\ loaded[p].rec.refreshToken # Absent)
            => /\ freshCalls[p] = 1
               /\ pc[p] \in FreshnessAwaits => InvApi(p) = 0

C3_Witness ==
    \E p \in Procs :
        /\ pc[p] = "api"
        /\ NearExpiry(loaded[p])
        /\ loaded[p].rec.accessToken # Absent
        /\ loaded[p].rec.refreshToken # Absent
        /\ freshCalls[p] = 1

\* The record the invocation loaded holds an access token that expires no
\* sooner than the margin.
FreshLoaded(l) ==
    /\ l.rec.accessToken # Absent
    /\ l.rec.expires_at # Absent
    /\ l.rec.expires_at - l.at >= TOKEN_REFRESH_MARGIN

\* C4: for a record with an access token and expiresAt - now >= margin the
\* freshness step makes no token endpoint call, and the resource call is sent
\* with the record as loaded.
C4_NoPrematureRefresh ==
    \A p \in Procs :
        (pc[p] # "idle" /\ FreshLoaded(loaded[p]))
            => /\ freshCalls[p] = 0
               /\ pc[p] = "api" => (cfg[p] = loaded[p].rec /\ ~persist[p].mutated)

C4_Witness ==
    \E p \in Procs :
        /\ pc[p] = "api"
        /\ FreshLoaded(loaded[p])
        /\ loaded[p].rec.expires_at - loaded[p].at = TOKEN_REFRESH_MARGIN

\* C5: the listener is shut down exactly once: close is never issued twice,
\* and the flow is never Success or Failed with the listener still running.
C5_ListenerClosedExactlyOnce ==
    /\ closeCalls <= 1
    /\ flow.state \in {"Success", "Failed"} => srv # "listening"

\* C6: at most one resolve or reject is ever issued in one run.
C6_SingleOutcome == settles <= 1

\* The last request handled was on the redirect path with a state other than
\* the generated one.
MismatchedCallback ==
    /\ last.req.url
    /\ last.req.path = CallbackPath
    /\ last.req.state # nonce

\* C7 as stated: every callback whose state differs from the nonce is
\* rejected with StateMismatchError, whatever else it carries.
C7_Original ==
    MismatchedCallback => (last.did = "StateMismatch" /\ ~last.exchanged)

\* C7 amended: every callback without an error parameter whose state differs
\* from the nonce (or is absent) is rejected with StateMismatchError and does
\* not call exchangeCode; with an error parameter it is rejected with
\* AuthorizationDeniedError, and does not call exchangeCode either.
C7_StateMismatchRejected ==
    MismatchedCallback =>
        /\ ~last.exchanged
        /\ last.did = (IF last.req.error = None THEN "StateMismatch" ELSE "AuthorizationDenied")

C7_Witness ==
    /\ MismatchedCallback
    /\ last.req.state = None
    /\ last.req.code # None
    /\ last.req.error = None
    /\ last.did = "StateMismatch"

C9_PersistFollowsMutation ==
    /\ lastOp.kind # "none" => LoadTokens(store) = lastOp.mem
    /\ \A p \in Procs :
        (persist[p].mutated /\ pc[p] \in Awaits) => persist[p].stored = cfg[p]

C9_Witness ==
    \E p \in Procs : persist[p].mutated /\ pc[p] = "api" /\ lastOp.who = p

\* C10: at most one token endpoint refresh call is in flight at any time.
C10_RefreshSerialized ==
    Cardinality({p \in Procs : pc[p] \in RefreshAwaits}) <= 1

\* C11: exchangeCodeForToken is called at most once in one run of the flow.
C11_ExchangeAtMostOnce == exchCalls <= 1

\* The first invocation of the request got a 401 and the refresh made on
\* account of it failed.
RetryRefreshFailed(p) ==
    /\ pc[p] = "done"
    /\ thrown[p].stage = "retry"

\* C12: when the resource call answers 401 with the retry allowed and the
\* refresh that follows fails, for whichever reason, the request fails with
\* AuthExpiredError and has sent one resource call only.
C12_AuthExpiredOnRefreshFailure ==
    \A p \in Procs :
        RetryRefreshFailed(p) =>
            /\ result[p] = Err("AuthExpired", 0)
            /\ Len(apiLog[p]) = 1
            /\ apiLog[p][1].status = 401 /\ apiLog[p][1].retry

C12_Witness ==
    \E p \in Procs :
        /\ RetryRefreshFailed(p)
        /\ thrown[p].err.kind = "SaveFailed"
        /\ result[p].kind = "AuthExpired"

\* The running invocation of the request ended in its freshness step.
FreshnessFailed(p) ==
    /\ pc[p] = "done"
    /\ \/ thrown[p].stage = "freshness"
       \/ result[p].kind = "AuthRequired"

\* C14: when the freshness step of an invocation fails, the request fails
\* with the very error the step threw and the invocation sends no resource
\* call: none at all when it is the first invocation of the request.
C14_FreshnessFailurePropagates ==
    \A p \in Procs :
        FreshnessFailed(p) =>
            /\ InvApi(p) = 0
            /\ retry[p] => Len(apiLog[p]) = 0
            /\ thrown[p].stage = "freshness" => result[p] = thrown[p].err
            /\ thrown[p].stage # "freshness" => result[p] = Err("AuthRequired", 0)

C14_Witness ==
    \E p \in Procs :
        /\ FreshnessFailed(p)
        /\ result[p].kind = "RefreshRejected"
        /\ tokCalls[p] = 1
        /\ Len(apiLog[p]) = 0

\* C15: a request that loads a record with neither token fails with
\* AuthRequiredError without any network call; one that loads a record with a
\* refresh token and no access token sends a token endpoint call first, and
\* no resource call before it is answered.
C15_AuthRequiredOrInitialRefresh ==
    \A p \in Procs :
        (pc[p] # "idle" /\ loaded[p].rec.accessToken = Absent) =>
            IF loaded[p].rec.refreshToken = Absent
            THEN /\ pc[p] = "done"
                 /\ result[p] = Err("AuthRequired", 0)
                 /\ tokCalls[p] = 0
                 /\ Len(apiLog[p]) = 0
            ELSE /\ freshCalls[p] >= 1
                 /\ pc[p] = "refreshInitial" => Len(apiLog[p]) = 0
                 /\ Len(apiLog[p]) > 0 => apiLog[p][1].token # Absent

C15_Witness ==
    \E p \in Procs :
        /\ pc[p] = "api"
        /\ loaded[p].rec.accessToken = Absent
        /\ loaded[p].rec.refreshToken # Absent
        /\ freshCalls[p] = 1
        /\ Len(apiLog[p]) = 1

\* The last resource call the request sent.
LastCall(p) == apiLog[p][Len(apiLog[p])]

\* The request ended on a resource answer that is neither 2xx nor a 401 to
\* a call with the retry allowed.
ApiErrorCase(p) ==
    /\ pc[p] = "done"
    /\ Len(apiLog[p]) > 0
    /\ LastCall(p).status # 0
    /\ LastCall(p).status \notin 200..299
    /\ ~(LastCall(p).status = 401 /\ LastCall(p).retry)

\* The 401 answers to calls of the request that were sent with the retry allowed.
Retried401(p) ==
    {i \in 1..Len(apiLog[p]) : apiLog[p][i].status = 401 /\ apiLog[p][i].retry}

\* C13: a 401 answered to a call with the retry disabled, and any other
\* non-2xx status, makes the request fail with ApiError carrying the status
\* and the message of the JSON error body when it has a non-empty one, the
\* raw body text otherwise; that answer triggers no refresh.
C13_ApiErrorWithoutRetry ==
    \A p \in Procs :
        ApiErrorCase(p) =>
            /\ result[p] = Err("ApiError", LastCall(p).status)
            /\ reply[p].text =
                    (IF /\ LastCall(p).body.json
                        /\ LastCall(p).body.message \notin {"none", ""}
                     THEN LastCall(p).body.message
                     ELSE LastCall(p).body.raw)
            /\ reactCalls[p] = Cardinality(Retried401(p))
            /\ thrown[p].stage = "none"

C13_Witness ==
    \E p \in Procs :
        /\ ApiErrorCase(p)
        /\ Len(apiLog[p]) = 2
        /\ LastCall(p).status = 401
        /\ LastCall(p).body.json
        /\ reply[p].text = "m"

\* C16: every request that was started ends with a result or an error when
\* every network call returns, and on its way reacts to a 401 at most once.
C16_Termination ==
    \A p \in Procs :
        /\ [](reactCalls[p] <= 1)
        /\ (pc[p] # "idle") ~> (pc[p] = "done")

C16_Witness ==
    \E p \in Procs :
        /\ pc[p] = "done"
        /\ Answered401(p)
        /\ reactCalls[p] = 1
        /\ result[p].kind = "ApiError"

\* C17: a resource response of status 204 makes the request return
\* undefined, whatever the method and with or without a body in the call,
\* and response.json() is not called.
C17_NoContentReturnsUndefined ==
    \A p \in Procs :
        (pc[p] = "done" /\ Len(apiLog[p]) > 0 /\ LastCall(p).status = 204) =>
            /\ result[p] = Ok(204)
            /\ reply[p].value = "undefined"
            /\ ~reply[p].parsed

C17_Witness ==
    \E p \in Procs :
        /\ pc[p] = "done"
        /\ Len(apiLog[p]) > 0
        /\ LastCall(p).status = 204
        /\ args[p].method = "POST"
        /\ args[p].body
        /\ ~LastCall(p).body.json
        /\ reply[p].value = "undefined"

\* C20: a refresh answered 400 or 401 by the token endpoint fails with
\* RefreshRejectedError, one answered any other non-2xx status with
\* TokenEndpointError, each carrying the status.
C20_RefreshFailureClassified ==
    \A p \in Procs :
        (thrown[p].stage # "none" /\ thrown[p].status # 0
            /\ thrown[p].status \notin 200..299) =>
            thrown[p].err =
                (IF thrown[p].status \in {400, 401}
                 THEN Err("RefreshRejected", thrown[p].status)
                 ELSE Err("TokenEndpoint", thrown[p].status))

C20_Witness ==
    \E p \in Procs :
        /\ thrown[p].stage = "freshness"
        /\ thrown[p].status = 500
        /\ result[p] = Err("TokenEndpoint", 500)

\* C18: a file that holds an access token was written by an exchange or a
\* refresh and holds an expiry with it, which is the time the last exchange
\* or refresh completed plus expires_in * 1000 of its response.
C18_RecordInvariant ==
    store.accessToken # Absent =>
        /\ lastOp.kind # "none"
        /\ store.expires_at # Absent
        /\ store.expires_at = lastOp.at + lastOp.expires_in * 1000

C18_Witness ==
    /\ lastOp.kind = "refresh"
    /\ lastOp.at > 0
    /\ lastOp.prevStored # Absent
    /\ store.accessToken # Absent
    /\ store.expires_at = lastOp.at + lastOp.expires_in * 1000

\* C19: a refresh token in the file is never removed from it, and never
\* replaced by one the provider issued before it.
C19_RefreshTokenRetained ==
    [][store.refreshToken # Absent => store'.refreshToken >= store.refreshToken]_vars

\* The invocation loaded a record with an access token and no refresh token.
NoRefreshLoaded(p) ==
    /\ pc[p] # "idle"
    /\ loaded[p].rec.accessToken # Absent
    /\ loaded[p].rec.refreshToken = Absent

\* C21: a refresh attempted on a record without a refresh token fails with
\* NoRefreshTokenError and the token endpoint is never called: a request that
\* loaded an access token near expiry and no refresh token ends with that
\* error before any resource call, and a 401 with such a record throws it too.
C21_NoRefreshTokenNoCall ==
    \A p \in Procs :
        NoRefreshLoaded(p) =>
            /\ tokCalls[p] = 0
            /\ NearExpiry(loaded[p]) =>
                /\ pc[p] = "done"
                /\ result[p] = Err("NoRefreshToken", 0)
                /\ thrown[p] = [stage |-> "freshness", status |-> 0,
                                err |-> Err("NoRefreshToken", 0), kept |-> TRUE]
                /\ apiLog[p] = <<>>
            /\ (pc[p] = "done" /\ Len(apiLog[p]) > 0 /\ LastCall(p).status = 401) =>
                thrown[p] = [stage |-> "retry", status |-> 0,
                             err |-> Err("NoRefreshToken", 0), kept |-> TRUE]

C21_Witness ==
    \E p \in Procs :
        /\ NoRefreshLoaded(p)
        /\ NearExpiry(loaded[p])
        /\ result[p] = Err("NoRefreshToken", 0)
        /\ tokCalls[p] = 0

\* C29: after a successful refresh the file holds the access token of the
\* token response and the expiry now + expires_in * 1000 of the moment the
\* refresh completed, and so does the config of the request that refreshed.
C29_RefreshPersistsNewToken ==
    lastOp.kind = "refresh" =>
        /\ store.accessToken = lastOp.newAccess
        /\ store.expires_at = lastOp.at + lastOp.expires_in * 1000
        /\ lastOp.mem.accessToken = lastOp.newAccess
        /\ lastOp.mem.expires_at = store.expires_at

\* A request found the record expired, refreshed it and goes on with the
\* new token.
C29_Witness ==
    \E p \in Procs :
        /\ lastOp.kind = "refresh"
        /\ lastOp.who = p
        /\ pc[p] = "api"
        /\ loaded[p].rec.accessToken # Absent
        /\ loaded[p].rec.expires_at <= loaded[p].at
        /\ store.accessToken = lastOp.newAccess
        /\ store.accessToken # loaded[p].rec.accessToken

\* The request ended on a 2xx answer other than 204 whose body response.json()
\* was called on and could not parse.
UnparsableCase(p) ==
    /\ pc[p] = "done"
    /\ Len(apiLog[p]) > 0
    /\ LastCall(p).status \in 200..299
    /\ LastCall(p).status # 204
    /\ reply[p].parsed
    /\ ~LastCall(p).body.json

\* C24: a 2xx answer other than 204 whose body cannot be parsed is an error
\* only when the method is GET or the call supplied a request body; every
\* other call, a POST or DELETE without a body among them, returns undefined.
C24_MalformedOnlyWhenBodyExpected ==
    \A p \in Procs :
        UnparsableCase(p) =>
            IF args[p].method = "GET" \/ args[p].body
            THEN result[p].kind = "ParseError"
            ELSE result[p].kind = "ok" /\ reply[p].value = "undefined"

\* The last request handled was on the redirect path with an error parameter.
ErrorCallback ==
    /\ last.req.url
    /\ last.req.path = CallbackPath
    /\ last.req.error # None

\* A step of the request handler that closes the listener with a rejection.
RejectingStep ==
    /\ reqs' = reqs + 1
    /\ closeCalls' = closeCalls + 1

OnRedirectPath ==
    /\ last.req.url
    /\ last.req.path = CallbackPath

C27_SuccessImpliesPersisted ==
    flow.state = "Success" =>
        /\ lastOp.kind = "exchange"
        /\ exchCalls >= 1
        /\ lastOp.newAccess # Absent
        /\ lastOp.expires_in # NotANumber
        /\ store.accessToken = lastOp.newAccess
        /\ store.refreshToken = lastOp.newRefresh
        /\ store.expires_at = lastOp.at + lastOp.expires_in * 1000

C27_Witness ==
    /\ flow.state = "Success"
    /\ srv = "closed"
    /\ lastOp.kind = "exchange"
    /\ store.accessToken = lastOp.newAccess
    /\ store.refreshToken # Absent
    /\ store.accessToken # 1

\* The last code exchange was answered with a status other than 2xx, or with
\* a 2xx without a numeric expires_in.
ExchangeRefused == exch.answer \in {"non2xx", "noExpiresIn"}

Unregistered == \E f \in SecretFields : env[f] = "" /\ secrets[f] = ""

\* C22: when clientId, clientSecret or redirectUri is empty after load, the
\* load fails with ConfigMissingError and nothing goes on past it: a request
\* ends with that error without a call to the token endpoint or to the
\* resource API, the authorization flow fails with it without a listener,
\* nothing is written, and a field is set only from the environment or the file.
C22_ConfigMissingStopsAtLoad ==
    /\ \A f \in SecretFields :
            LoadSecrets(env, secrets)[f] \in {env[f], secrets[f]}
    /\ Unregistered =>
        /\ \A p \in Procs :
            pc[p] # "idle" =>
                /\ pc[p] = "done"
                /\ result[p] = Err("ConfigMissing", 0)
                /\ apiLog[p] = <<>>
                /\ tokCalls[p] = 0
        /\ flow.state # "Idle" =>
                /\ flow = [state |-> "Failed", error |-> "ConfigMissing"]
                /\ srv = "off"
                /\ reqs = 0
                /\ exchCalls = 0
        /\ lastOp = NoOp

C22_Witness ==
    /\ env.clientId = "env"
    /\ env.clientSecret = ""
    /\ secrets.clientSecret = ""
    /\ secrets.redirectUri = "file"
    /\ store.accessToken # Absent
    /\ result[1] = Err("ConfigMissing", 0)
    /\ flow = [state |-> "Failed", error |-> "ConfigMissing"]

\* C23: a save writes no clientId, clientSecret or redirectUri that the file
\* did not hold, and leaves those the file holds as they are: whatever is
\* saved, the three fields of the file do not change.
C23_SavePreservesRegistration ==
    [][secrets' = secrets]_vars

\* A refresh and an exchange were saved with the registration in the
\* environment and a file that holds the client id only.
C23_Witness ==
    /\ lastOp.kind # "none"
    /\ env = FromEnv
    /\ secrets = [NoSecrets EXCEPT !.clientId = "file"]
    /\ store.accessToken # Absent
    /\ store.accessToken # 1

\* C30: a tool handler returns a result, with or without isError, and never
\* throws: when its call of the request function failed, the result has
\* isError and carries the error with its message, and a result without
\* isError is returned only when the call succeeded.
C30_HandlerReturnsErrorObject ==
    \A p \in Procs :
        pc[p] = "returned" =>
            /\ ~tool[p].threw
            /\ result[p].kind \notin {"ok", "none"} =>
                /\ tool[p].isError
                /\ tool[p].error = result[p]
                /\ tool[p].text = reply[p].text
            /\ ~tool[p].isError => result[p].kind = "ok"

C30_Witness ==
    \E p \in Procs :
        /\ pc[p] = "returned"
        /\ result[p] = Err("ApiError", 500)
        /\ tool[p].isError
        /\ tool[p].error = result[p]
        /\ tool[p].text = "m"

\* The handler that looks for snapshot_id made a PUT with a body, and the
\* last answer to it was 200 or 201 with a JSON body that carries snapshot_id.
SnapshotAnswered(p) ==
    /\ pc[p] = "returned"
    /\ tool[p].needs
    /\ args[p].method = "PUT"
    /\ args[p].body
    /\ Len(apiLog[p]) > 0
    /\ LastCall(p).status \in {200, 201}
    /\ LastCall(p).body = SnapshotBody

\* C31: updatePlaylistItems, its PUT answered 200 or 201 with a JSON body
\* that carries snapshot_id, returns a result without isError that carries
\* that snapshot id.
C31_SnapshotReturnedOnSuccess ==
    \A p \in Procs :
        SnapshotAnswered(p) =>
            /\ ~tool[p].isError
            /\ tool[p].text = SnapshotBody.raw

\* A step of the request handler on a request whose path is not the redirect
\* path. (A failed accept counts in reqs too, and issues an outcome.)
OffPathStep ==
    /\ reqs' = reqs + 1
    /\ settles' = settles
    /\ last'.req.url
    /\ last'.req.path # CallbackPath

\* C32: a request whose path is not the redirect path is answered 404 and
\* nothing else changes: the flow and the listener are as before (awaiting
\* the callback and listening, when they were), no close and no outcome is
\* issued, exchangeCode is not called and the file is not written.
C32_OtherPathsChangeNothing ==
    [][OffPathStep =>
        /\ last'.did = "NotFound"
        /\ ~last'.exchanged
        /\ flow' = flow
        /\ srv' = srv
        /\ closeCalls' = closeCalls
        /\ closeCbs' = closeCbs
        /\ exchCalls' = exchCalls
        /\ inflight' = inflight
        /\ store' = store
        /\ secrets' = secrets
        /\ lastOp' = lastOp]_vars

C32_Witness ==
    /\ last.did = "NotFound"
    /\ last.req.path = "/favicon.ico"
    /\ reqs = 1
    /\ flow.state = "AwaitingCallback"
    /\ srv = "listening"
    /\ exchCalls = 0
    /\ closeCalls = 0
    /\ lastOp = NoOp

\* Errors refreshToken throws before it saves: no refresh token, a fetch that
\* rejects, a status other than 2xx, a response without a numeric expires_in.
BeforePersisting == {"NoRefreshToken", "NetworkError", "RefreshRejected", "TokenEndpoint",
                     "MissingExpiresIn"}

\* C33: a refresh that fails before persisting leaves the record as it was:
\* the config of the request holds the same accessToken, refreshToken and
\* expires_at as before the call, and the step writes nothing to the file.
C33_FailedRefreshChangesNothing ==
    /\ [](\A p \in Procs :
            (thrown[p].stage # "none" /\ thrown[p].err.kind \in BeforePersisting) =>
                thrown[p].kept)
    /\ [][\A p \in Procs :
            (thrown'[p] # thrown[p] /\ thrown'[p].err.kind \in BeforePersisting) =>
                /\ store' = store
                /\ secrets' = secrets
                /\ lastOp' = lastOp]_vars

C33_Witness ==
    \E p \in Procs :
        /\ thrown[p].stage = "retry"
        /\ thrown[p].err = Err("MissingExpiresIn", 0)
        /\ thrown[p].kept
        /\ store.accessToken = 1
        /\ store = loaded[p].rec

\* C34: a run that failed on a callback (denial, state mismatch, missing
\* code) writes no tokens: whenever the flow is Failed with one of these
\* errors, no exchange of the run has been saved.
C34_FailedRunPersistsNothing ==
    (/\ flow.state = "Failed"
     /\ flow.error \in {"AuthorizationDenied", "StateMismatch", "MissingCode"})
        => lastOp.kind # "exchange"

\* ------------------------------------------------------------ C35
\* The step sends a resource call of request p.
Sends(p) == Len(apiLog'[p]) > Len(apiLog[p])

\* C35: every resource call carries as bearer token the accessToken that the
\* persisted store holds at the moment the call is sent; the call made again
\* after a 401 carries the token of the most recent successful refresh and not
\* the token that was rejected.
C35_BearerIsStoredToken ==
    [][\A p \in Procs :
        Sends(p) =>
            LET sent == apiLog'[p][Len(apiLog'[p])] IN
            /\ sent.token # Absent
            /\ sent.token = store'.accessToken
            /\ Len(apiLog[p]) > 0 =>
                /\ sent.token = lastOp'.newAccess
                /\ lastOp'.kind = "refresh"
                /\ sent.token # LastCall(p).token]_vars

C35_Witness ==
    \E p \in Procs :
        /\ Len(apiLog[p]) = 2
        /\ apiLog[p][1].status = 401
        /\ apiLog[p][1].token = 1
        /\ apiLog[p][2].token = 3
        /\ store.accessToken = 3
        /\ pc[p] = "api"

\* ------------------------------------------------------------ C36
\* C36: the call made again after a 401 is the same logical request as the
\* first: same method, path, query and body; the first call was sent with
\* retry allowed, the second with retry disabled and another bearer token.
C36_RetriedCallSameRequest ==
    \A p \in Procs :
        Len(apiLog[p]) >= 2 =>
            /\ Len(apiLog[p]) = 2
            /\ apiLog[p][1].status = 401
            /\ apiLog[p][2].call = apiLog[p][1].call
            /\ apiLog[p][2].call = args[p]
            /\ apiLog[p][1].retry
            /\ ~apiLog[p][2].retry
            /\ apiLog[p][2].token # apiLog[p][1].token

C36_Witness ==
    \E p \in Procs :
        /\ Len(apiLog[p]) = 2
        /\ apiLog[p][1].call = [method |-> "PUT", body |-> TRUE, path |-> "/me/player",
                                query |-> FALSE]
        /\ apiLog[p][2].call = apiLog[p][1].call
        /\ apiLog[p][2].status = 200
        /\ pc[p] = "done"

\* ------------------------------------------------------------ C37
\* The running invocation of request p has loaded the configuration, and the
\* file has not been written since.
LoadReturned(p) ==
    /\ pc[p] # "idle"
    /\ result[p].kind # "ConfigMissing"
    /\ ~persist[p].mutated

\* C37: load resolves each of clientId, clientSecret and redirectUri to the
\* environment value when that is non-empty and otherwise to the file's
\* value; accessToken, refreshToken and expires_at are the file's; a file
\* that cannot be parsed yields the environment values and no tokens.
C37_LoadResolution ==
    \A p \in Procs :
        LoadReturned(p) =>
            IF secrets = CorruptSecrets
            THEN /\ loaded[p].secrets = env
                 /\ loaded[p].rec = NoTokens
            ELSE /\ \A f \in SecretFields :
                        loaded[p].secrets[f] = IF env[f] # "" THEN env[f] ELSE secrets[f]
                 /\ loaded[p].rec = store

C37_Witness ==
    /\ LoadReturned(1)
    /\ env = [NoSecrets EXCEPT !.clientId = "env"]
    /\ secrets = FromFile
    /\ loaded[1].secrets = [clientId |-> "env", clientSecret |-> "file", redirectUri |-> "file"]
    /\ loaded[1].rec.accessToken = 1
    /\ pc[1] = "api"

C37_WitnessCorrupt ==
    /\ LoadReturned(1)
    /\ secrets = CorruptSecrets
    /\ store = CorruptTokens
    /\ loaded[1].secrets = FromEnv
    /\ pc[1] = "done"

====
